---- MODULE Spec2Model ----
(***************************************************************************)
(* Model of the chatbot service (app/services/ai_service.py) and of the    *)
(* conversation endpoints that call it (app/api/chat.py).                  *)
(*                                                                         *)
(* A Python str is a sequence of one-character strings, so that lower(),   *)
(* "in", find(), slicing, strip(), split() and replace() are computed and  *)
(* not assumed.  Indexes passed to Find and Slice are Python's (0-based).  *)
(*                                                                         *)
(* The service runs on one asyncio event loop: the code between two awaits *)
(* is one atomic step.  chat() has a single await (run_in_executor inside  *)
(* _generate_response), so a call is two steps: ChatStart, up to the       *)
(* await, and ChatResume, from the await to the return.                    *)
(***************************************************************************)
EXTENDS Integers, Sequences, FiniteSets, TLC

\* --------------------------------------------------------------------------
\* Python values
\* --------------------------------------------------------------------------

\* None where a str is expected (a one-element tuple that is no character string)
NoneStr == << "<None>" >>

\* None where a conversation id is expected (ids are opaque: only compared)
NoneId == "<None>"

\* bool(x) of an Optional[str] text: None and "" are falsy
Truthy(s) == s # NoneStr /\ s # << >>

\* bool(x) of an Optional[str] id: None and "" are falsy
TruthyId(id) == id # NoneId /\ id # ""

Min(a, b) == IF a <= b THEN a ELSE b

\* --------------------------------------------------------------------------
\* str operations
\* --------------------------------------------------------------------------

UpperLetters ==
    << "A","B","C","D","E","F","G","H","I","J","K","L","M",
       "N","O","P","Q","R","S","T","U","V","W","X","Y","Z" >>

LowerLetters ==
    << "a","b","c","d","e","f","g","h","i","j","k","l","m",
       "n","o","p","q","r","s","t","u","v","w","x","y","z" >>

\* str.isspace() of one character
IsSpace(ch) == ch \in {" ", "\n", "\t", "\r"}

LowerChar(ch) ==
    IF \E i \in 1..Len(UpperLetters) : UpperLetters[i] = ch
    THEN LowerLetters[CHOOSE i \in 1..Len(UpperLetters) : UpperLetters[i] = ch]
    ELSE ch

\* s.lower()
Lower(s) == [i \in 1..Len(s) |-> LowerChar(s[i])]

\* sub occupies s[i : i+len(sub)], i 0-based
OccursAt(sub, s, i) ==
    /\ i >= 0
    /\ i + Len(sub) <= Len(s)
    /\ \A k \in 1..Len(sub) : s[i + k] = sub[k]

\* sub in s
Contains(sub, s) == \E i \in 0..Len(s) : OccursAt(sub, s, i)

\* s.find(sub, start): lowest index >= start, or -1
Find(s, sub, start) ==
    LET hits == { i \in start..Len(s) : OccursAt(sub, s, i) }
    IN  IF hits = {} THEN -1
        ELSE CHOOSE i \in hits : \A j \in hits : i <= j

\* s[a:b] for 0 <= a, 0 <= b (b may exceed len(s))
Slice(s, a, b) ==
    IF a >= Min(b, Len(s)) THEN << >> ELSE SubSeq(s, a + 1, Min(b, Len(s)))

\* s[a:]
SliceFrom(s, a) == Slice(s, a, Len(s))

\* s[-n:] of a str or a list, n > 0
LastN(s, n) == IF Len(s) <= n THEN s ELSE SubSeq(s, Len(s) - n + 1, Len(s))

\* s.strip()
Strip(s) ==
    LET keep == { i \in 1..Len(s) : ~IsSpace(s[i]) }
    IN  IF keep = {} THEN << >>
        ELSE LET lo == CHOOSE i \in keep : \A j \in keep : i <= j
                 hi == CHOOSE i \in keep : \A j \in keep : i >= j
             IN  SubSeq(s, lo, hi)

\* s.startswith(prefix)
StartsWith(s, prefix) == OccursAt(prefix, s, 0)

\* s.replace(old, ""), old non-empty: drops the occurrences found left to right
RECURSIVE RemoveAll(_, _)
RemoveAll(s, old) ==
    LET i == Find(s, old, 0)
    IN  IF old = << >> \/ i = -1 THEN s
        ELSE Slice(s, 0, i) \o RemoveAll(SliceFrom(s, i + Len(old)), old)

\* s.split(): the maximal runs of non-whitespace characters, in order
RECURSIVE Split(_)
Split(s) ==
    LET starts == { i \in 1..Len(s) : ~IsSpace(s[i]) }
    IN  IF starts = {} THEN << >>
        ELSE LET lo   == CHOOSE i \in starts : \A j \in starts : i <= j
                 ends == { i \in lo..Len(s) : i = Len(s) \/ IsSpace(s[i + 1]) }
                 hi   == CHOOSE i \in ends : \A j \in ends : i <= j
             IN  << SubSeq(s, lo, hi) >> \o Split(SliceFrom(s, hi))

\* s.split(","): the pieces between the separators (always at least one piece)
RECURSIVE SplitOn(_, _)
SplitOn(s, sep) ==
    LET i == Find(s, sep, 0)
    IN  IF i = -1 THEN << s >>
        ELSE << Slice(s, 0, i) >> \o SplitOn(SliceFrom(s, i + Len(sep)), sep)

\* sep.join(parts)
RECURSIVE Join(_, _)
Join(parts, sep) ==
    IF parts = << >> THEN << >>
    ELSE IF Len(parts) = 1 THEN parts[1]
    ELSE parts[1] \o sep \o Join(Tail(parts), sep)

\* --------------------------------------------------------------------------
\* Configuration (app/core/config.py): the Settings fields the service reads.
\* Each field is an environment variable with a default.
\* --------------------------------------------------------------------------

\* 'Demo Business'
DEFAULT_BUSINESS_NAME ==
    << "D","e","m","o"," ","B","u","s","i","n","e","s","s" >>

\* 'customer service'
DEFAULT_BUSINESS_TYPE ==
    << "c","u","s","t","o","m","e","r"," ","s","e","r","v","i","c","e" >>

\* 'No specific business details configured yet.'
DEFAULT_BUSINESS_DETAILS ==
    << "N","o"," ","s","p","e","c","i","f","i","c"," ","b","u","s","i","n","e","s","s"," ","d",
       "e","t","a","i","l","s"," ","c","o","n","f","i","g","u","r","e","d"," ","y","e","t","." >>

\* 'general questions,product information,pricing,support'
DEFAULT_ALLOWED_TOPICS ==
    << "g","e","n","e","r","a","l"," ","q","u","e","s","t","i","o","n","s",",","p","r","o","d",
       "u","c","t"," ","i","n","f","o","r","m","a","t","i","o","n",",","p","r","i","c","i","n",
       "g",",","s","u","p","p","o","r","t" >>

\* 'medical advice,legal advice,financial advice,personal information'
DEFAULT_RESTRICTED_TOPICS ==
    << "m","e","d","i","c","a","l"," ","a","d","v","i","c","e",",","l","e","g","a","l"," ","a",
       "d","v","i","c","e",",","f","i","n","a","n","c","i","a","l"," ","a","d","v","i","c","e",
       ",","p","e","r","s","o","n","a","l"," ","i","n","f","o","r","m","a","t","i","o","n" >>

\* MODEL_NAME default, and the model initialize() falls back to when loading it fails
DEFAULT_MODEL_NAME == "microsoft/DialoGPT-medium"

FALLBACK_MODEL_NAME == "microsoft/DialoGPT-small"

\* Settings() with no environment variable set
DefaultSettings ==
    [ BUSINESS_NAME     |-> DEFAULT_BUSINESS_NAME,
      BUSINESS_TYPE     |-> DEFAULT_BUSINESS_TYPE,
      BUSINESS_DETAILS  |-> DEFAULT_BUSINESS_DETAILS,
      ALLOWED_TOPICS    |-> DEFAULT_ALLOWED_TOPICS,
      RESTRICTED_TOPICS |-> DEFAULT_RESTRICTED_TOPICS,
      MODEL_NAME        |-> DEFAULT_MODEL_NAME ]

\* A deployment that sets BUSINESS_NAME, BUSINESS_TYPE, BUSINESS_DETAILS and
\* RESTRICTED_TOPICS in its environment

\* 'Bike Shop'
SHOP_BUSINESS_NAME ==
    << "B","i","k","e"," ","S","h","o","p" >>

\* 'bike repair'
SHOP_BUSINESS_TYPE ==
    << "b","i","k","e"," ","r","e","p","a","i","r" >>

\* 'Hours: 9-5 Mon-Fri. Phone: 555-0100, Email: hi@shop.io. Returns within 30 days. Services: repair bikes'
SHOP_BUSINESS_DETAILS ==
    << "H","o","u","r","s",":"," ","9","-","5"," ","M","o","n","-","F","r","i","."," ","P","h",
       "o","n","e",":"," ","5","5","5","-","0","1","0","0",","," ","E","m","a","i","l",":"," ",
       "h","i","@","s","h","o","p",".","i","o","."," ","R","e","t","u","r","n","s"," ","w","i",
       "t","h","i","n"," ","3","0"," ","d","a","y","s","."," ","S","e","r","v","i","c","e","s",
       ":"," ","r","e","p","a","i","r"," ","b","i","k","e","s" >>

\* 'Medical Advice, legal advice'
SHOP_RESTRICTED_TOPICS ==
    << "M","e","d","i","c","a","l"," ","A","d","v","i","c","e",","," ","l","e","g","a","l"," ",
       "a","d","v","i","c","e" >>

ShopSettings ==
    [ BUSINESS_NAME     |-> SHOP_BUSINESS_NAME,
      BUSINESS_TYPE     |-> SHOP_BUSINESS_TYPE,
      BUSINESS_DETAILS  |-> SHOP_BUSINESS_DETAILS,
      ALLOWED_TOPICS    |-> DEFAULT_ALLOWED_TOPICS,
      RESTRICTED_TOPICS |-> SHOP_RESTRICTED_TOPICS,
      MODEL_NAME        |-> DEFAULT_MODEL_NAME ]

\* The environments the service is started in
Environments == { DefaultSettings, ShopSettings }

\* [topic.strip() for topic in value.split(",")]
StripEach(parts) == [i \in 1..Len(parts) |-> Strip(parts[i])]

\* AIService._load_business_config
LoadBusinessConfig(s) ==
    [ name              |-> s.BUSINESS_NAME,
      type              |-> s.BUSINESS_TYPE,
      allowed_topics    |-> StripEach(SplitOn(s.ALLOWED_TOPICS, << "," >>)),
      restricted_topics |-> StripEach(SplitOn(s.RESTRICTED_TOPICS, << "," >>)) ]

\* --------------------------------------------------------------------------
\* TopicGate: AIService._is_on_topic
\* --------------------------------------------------------------------------

\* "I can't provide "
RedirectHead ==
    << "I"," ","c","a","n","'","t"," ","p","r","o","v","i","d","e"," " >>

\* '. Let me help you with '
RedirectMid ==
    << "."," ","L","e","t"," ","m","e"," ","h","e","l","p"," ","y","o","u"," ","w","i","t","h",
       " " >>

\* ' related questions instead.'
RedirectTail ==
    << " ","r","e","l","a","t","e","d"," ","q","u","e","s","t","i","o","n","s"," ","i","n","s",
       "t","e","a","d","." >>

\* the f-string returned for a restricted phrase
RedirectMessage(restricted, cfg) ==
    RedirectHead \o restricted \o RedirectMid \o cfg.type \o RedirectTail

\* _is_on_topic without the two lower() calls: the phrase is looked for as written
IsOnTopicCaseSensitive(message, cfg) ==
    LET topics == cfg.restricted_topics
        hits == { i \in 1..Len(topics) : Contains(topics[i], message) }
    IN  IF hits = {}
        THEN [ allowed |-> TRUE, redirect |-> NoneStr ]
        ELSE LET first == CHOOSE i \in hits : \A j \in hits : i <= j
             IN  [ allowed |-> FALSE, redirect |-> RedirectMessage(topics[first], cfg) ]

\* _is_on_topic with the loop running to its end: the last matching phrase is named
IsOnTopicLast(message, cfg) ==
    LET message_lower == Lower(message)
        topics == cfg.restricted_topics
        hits == { i \in 1..Len(topics) : Contains(Lower(topics[i]), message_lower) }
    IN  IF hits = {}
        THEN [ allowed |-> TRUE, redirect |-> NoneStr ]
        ELSE LET last == CHOOSE i \in hits : \A j \in hits : i >= j
             IN  [ allowed |-> FALSE, redirect |-> RedirectMessage(topics[last], cfg) ]

\* _is_on_topic(message): (False, redirect) for the first restricted phrase, in
\* configured order, whose lower-cased form is a substring of message.lower()
IsOnTopic(message, cfg) ==
    LET message_lower == Lower(message)
        topics == cfg.restricted_topics
        hits == { i \in 1..Len(topics) : Contains(Lower(topics[i]), message_lower) }
    IN  IF hits = {}
        THEN [ allowed |-> TRUE, redirect |-> NoneStr ]
        ELSE LET first == CHOOSE i \in hits : \A j \in hits : i <= j
             IN  [ allowed |-> FALSE, redirect |-> RedirectMessage(topics[first], cfg) ]

\* --------------------------------------------------------------------------
\* FactExtractor: AIService._get_direct_answer
\* --------------------------------------------------------------------------

\* the patterns dict, in insertion order

patterns ==
    <<
      [ topic |-> "hours", keywords |-> <<
          << "h","o","u","r","s" >>,
          << "o","p","e","n" >>,
          << "c","l","o","s","e" >>,
          << "w","h","e","n"," ","a","r","e"," ","y","o","u"," ","o","p","e","n" >>,
          << "w","h","a","t"," ","t","i","m","e" >> >> ],
      [ topic |-> "location", keywords |-> <<
          << "l","o","c","a","t","i","o","n" >>,
          << "a","d","d","r","e","s","s" >>,
          << "w","h","e","r","e"," ","a","r","e"," ","y","o","u" >>,
          << "w","h","e","r","e"," ","l","o","c","a","t","e","d" >> >> ],
      [ topic |-> "contact", keywords |-> <<
          << "c","o","n","t","a","c","t" >>,
          << "p","h","o","n","e" >>,
          << "e","m","a","i","l" >>,
          << "c","a","l","l" >>,
          << "r","e","a","c","h" >> >> ],
      [ topic |-> "pricing", keywords |-> <<
          << "p","r","i","c","e" >>,
          << "c","o","s","t" >>,
          << "h","o","w"," ","m","u","c","h" >>,
          << "p","r","i","c","i","n","g" >>,
          << "p","l","a","n" >> >> ],
      [ topic |-> "shipping", keywords |-> <<
          << "s","h","i","p","p","i","n","g" >>,
          << "d","e","l","i","v","e","r","y" >>,
          << "s","h","i","p" >> >> ],
      [ topic |-> "returns", keywords |-> <<
          << "r","e","t","u","r","n" >>,
          << "r","e","f","u","n","d" >>,
          << "m","o","n","e","y"," ","b","a","c","k" >> >> ],
      [ topic |-> "services", keywords |-> <<
          << "s","e","r","v","i","c","e" >>,
          << "w","h","a","t"," ","d","o"," ","y","o","u"," ","d","o" >>,
          << "w","h","a","t"," ","d","o"," ","y","o","u"," ","o","f","f","e","r" >> >> ]
    >>

\* 'hours:'
A_hours ==
    << "h","o","u","r","s",":" >>

\* 'location:'
A_location ==
    << "l","o","c","a","t","i","o","n",":" >>

\* 'phone'
A_phone ==
    << "p","h","o","n","e" >>

\* 'email'
A_email ==
    << "e","m","a","i","l" >>

\* 'pricing:'
A_pricing ==
    << "p","r","i","c","i","n","g",":" >>

\* 'shipping:'
A_shipping ==
    << "s","h","i","p","p","i","n","g",":" >>

\* 'return'
A_return ==
    << "r","e","t","u","r","n" >>

\* 'services:'
A_services ==
    << "s","e","r","v","i","c","e","s",":" >>

\* 'Our '
HoursHead ==
    << "O","u","r"," " >>

\* ". Is there anything else you'd like to know?"
HoursTail ==
    << "."," ","I","s"," ","t","h","e","r","e"," ","a","n","y","t","h","i","n","g"," ","e","l",
       "s","e"," ","y","o","u","'","d"," ","l","i","k","e"," ","t","o"," ","k","n","o","w","?" >>

\* "We're located at: "
LocationHead ==
    << "W","e","'","r","e"," ","l","o","c","a","t","e","d"," ","a","t",":"," " >>

\* '. Feel free to visit us!'
LocationTail ==
    << "."," ","F","e","e","l"," ","f","r","e","e"," ","t","o"," ","v","i","s","i","t"," ","u",
       "s","!" >>

\* 'You can reach us at: '
ContactHead ==
    << "Y","o","u"," ","c","a","n"," ","r","e","a","c","h"," ","u","s"," ","a","t",":"," " >>

\* ". We're here to help!"
ContactTail ==
    << "."," ","W","e","'","r","e"," ","h","e","r","e"," ","t","o"," ","h","e","l","p","!" >>

\* 'Our '
PricingHead ==
    << "O","u","r"," " >>

\* '. Would you like more details on any specific plan?'
PricingTail ==
    << "."," ","W","o","u","l","d"," ","y","o","u"," ","l","i","k","e"," ","m","o","r","e"," ",
       "d","e","t","a","i","l","s"," ","o","n"," ","a","n","y"," ","s","p","e","c","i","f","i",
       "c"," ","p","l","a","n","?" >>

\* 'Regarding '
ShippingHead ==
    << "R","e","g","a","r","d","i","n","g"," " >>

\* '. Can I help you with anything else?'
ShippingTail ==
    << "."," ","C","a","n"," ","I"," ","h","e","l","p"," ","y","o","u"," ","w","i","t","h"," ",
       "a","n","y","t","h","i","n","g"," ","e","l","s","e","?" >>

\* 'Our return policy: '
ReturnsHead ==
    << "O","u","r"," ","r","e","t","u","r","n"," ","p","o","l","i","c","y",":"," " >>

\* '. Let me know if you have questions!'
ReturnsTail ==
    << "."," ","L","e","t"," ","m","e"," ","k","n","o","w"," ","i","f"," ","y","o","u"," ","h",
       "a","v","e"," ","q","u","e","s","t","i","o","n","s","!" >>

\* 'We '
ServicesHead ==
    << "W","e"," " >>

\* '. What can I help you with today?'
ServicesTail ==
    << "."," ","W","h","a","t"," ","c","a","n"," ","I"," ","h","e","l","p"," ","y","o","u"," ",
       "w","i","t","h"," ","t","o","d","a","y","?" >>

\* details_full.find(".", start) if "." in details_full[start:] else len(details_full)
EndAtDot(details_full, start) ==
    IF Contains(<< "." >>, SliceFrom(details_full, start))
    THEN Find(details_full, << "." >>, start)
    ELSE Len(details_full)

\* details_full[start+skip : end].strip(), start the anchor's index in the
\* lower-cased blob and end the next "." (or the end of the blob)
AnchorText(details_full, anchor, skip) ==
    LET start == Find(Lower(details_full), anchor, 0)
    IN  Strip(Slice(details_full, start + skip, EndAtDot(details_full, start)))

\* the "phone" piece of the contact answer: up to the next "," within 50
\* characters, else 40 characters
PhoneText(details_full) ==
    LET start == Find(Lower(details_full), A_phone, 0)
        end == IF Contains(<< "," >>, Slice(details_full, start, start + 50))
               THEN Find(details_full, << "," >>, start)
               ELSE start + 40
    IN  Strip(Slice(details_full, start, end))

\* the "email" piece of the contact answer: up to the next "." within 50
\* characters, else 40 characters
EmailText(details_full) ==
    LET start == Find(Lower(details_full), A_email, 0)
        end == IF Contains(<< "." >>, Slice(details_full, start, start + 50))
               THEN Find(details_full, << "." >>, start)
               ELSE start + 40
    IN  Strip(Slice(details_full, start, end))

\* contact_info: the phone piece, then the email piece, each when its anchor occurs
ContactInfo(details_full) ==
    LET business_details == Lower(details_full)
    IN  (IF Contains(A_phone, business_details) THEN << PhoneText(details_full) >> ELSE << >>)
        \o (IF Contains(A_email, business_details) THEN << EmailText(details_full) >> ELSE << >>)

\* The branch of one topic inside the loop: its answer when the topic's anchor
\* occurs in the lower-cased blob, None otherwise
TopicAnswer(topic, details_full) ==
    LET business_details == Lower(details_full)
    IN  CASE topic = "hours" /\ Contains(A_hours, business_details) ->
                HoursHead \o AnchorText(details_full, A_hours, 0) \o HoursTail
          [] topic = "location" /\ Contains(A_location, business_details) ->
                LocationHead \o AnchorText(details_full, A_location, 9) \o LocationTail
          [] topic = "contact" /\ (\/ Contains(A_phone, business_details)
                                   \/ Contains(A_email, business_details)) ->
                ContactHead \o Join(ContactInfo(details_full), << ",", " " >>) \o ContactTail
          [] topic = "pricing" /\ Contains(A_pricing, business_details) ->
                PricingHead \o AnchorText(details_full, A_pricing, 0) \o PricingTail
          [] topic = "shipping" /\ Contains(A_shipping, business_details) ->
                ShippingHead \o AnchorText(details_full, A_shipping, 0) \o ShippingTail
          [] topic = "returns" /\ Contains(A_return, business_details) ->
                ReturnsHead \o AnchorText(details_full, A_return, 0) \o ReturnsTail
          [] topic = "services" /\ Contains(A_services, business_details) ->
                ServicesHead \o AnchorText(details_full, A_services, 9) \o ServicesTail
          [] OTHER -> NoneStr

\* any(keyword in message_lower for keyword in keywords)
KeywordMatch(message_lower, keywords) ==
    \E i \in 1..Len(keywords) : Contains(keywords[i], message_lower)

\* the loop over patterns.items() from entry k on: the first topic with a keyword
\* in the message and its anchor in the blob answers; None after the last entry
RECURSIVE DirectAnswerFrom(_, _, _)
DirectAnswerFrom(k, message_lower, details_full) ==
    IF k > Len(patterns) THEN NoneStr
    ELSE LET answer == IF KeywordMatch(message_lower, patterns[k].keywords)
                       THEN TopicAnswer(patterns[k].topic, details_full)
                       ELSE NoneStr
         IN  IF answer # NoneStr THEN answer
             ELSE DirectAnswerFrom(k + 1, message_lower, details_full)

\* _get_direct_answer with a return None after the first topic whose keyword matches
GetDirectAnswerNoFallThrough(message, s) ==
    LET hits == { k \in 1..Len(patterns) : KeywordMatch(Lower(message), patterns[k].keywords) }
    IN  IF hits = {} THEN NoneStr
        ELSE TopicAnswer(patterns[CHOOSE k \in hits : \A j \in hits : k <= j].topic,
                         s.BUSINESS_DETAILS)

\* _get_direct_answer(message)
GetDirectAnswer(message, s) ==
    DirectAnswerFrom(1, Lower(message), s.BUSINESS_DETAILS)

\* --------------------------------------------------------------------------
\* ContextBuilder and PromptComposer
\* --------------------------------------------------------------------------

\* ChatMessage(role=..., content=...): timestamp keeps its default, None
ChatMessage(role, content) == [ role |-> role, content |-> content, timestamp |-> NoneStr ]

\* 'Human'
HumanLabel ==
    << "H","u","m","a","n" >>

\* 'Assistant'
AssistantLabel ==
    << "A","s","s","i","s","t","a","n","t" >>

\* f"{role}: {msg.content}" with role "Human" for a user turn, "Assistant" otherwise
ContextLine(msg) ==
    (IF msg.role = "user" THEN HumanLabel ELSE AssistantLabel) \o << ":", " " >> \o msg.content

\* the number of trailing turns _build_conversation_context renders (max_context)
MaxContext == 3

\* _build_conversation_context(conversation_history)
BuildConversationContext(conversation_history) ==
    IF conversation_history = << >> THEN << >>
    ELSE LET recent_messages == LastN(conversation_history, MaxContext)
         IN  Join([i \in 1..Len(recent_messages) |-> ContextLine(recent_messages[i])], << "\n" >>)

\* '\nAdditional Context: '
AdditionalContextLabel ==
    << "\n","A","d","d","i","t","i","o","n","a","l"," ","C","o","n","t","e","x","t",":"," " >>

\* lines 246-253 of chat(): the rendered history, then the extra context when given
ConversationContext(conversation_history, context) ==
    (IF conversation_history # << >> THEN BuildConversationContext(conversation_history) ELSE << >>)
    \o (IF Truthy(context) THEN AdditionalContextLabel \o context ELSE << >>)

\* _create_business_prompt(user_message, context): the f-string as the tuple of its
\* pieces in order, the fixed text of the template as whole strings and the
\* substituted values as character sequences
CreateBusinessPrompt(user_message, context, cfg, s) ==
    << "You are a helpful assistant for ", cfg.name, ", a ", cfg.type,
       ".\n\nBUSINESS INFORMATION:\n", s.BUSINESS_DETAILS,
       "\n\nGUIDELINES:\n- Be professional, helpful, and friendly\n- Use the business information above to answer questions accurately\n- Focus on topics related to: ",
       Join(cfg.allowed_topics, << ",", " " >>),
       "\n- If asked about unrelated topics, politely redirect to your area of expertise\n- Keep responses concise and helpful\n- End with a helpful question when appropriate\n\nCONVERSATION CONTEXT:\n",
       context, "\n\nUSER: ", user_message, "\nASSISTANT:" >>

\* --------------------------------------------------------------------------
\* Generator: AIService._generate_response
\* --------------------------------------------------------------------------

\* "I'm not sure how to respond to that. Could you please rephrase your question?"
GEN_NO_CANDIDATE ==
    << "I","'","m"," ","n","o","t"," ","s","u","r","e"," ","h","o","w"," ","t","o"," ","r","e",
       "s","p","o","n","d"," ","t","o"," ","t","h","a","t","."," ","C","o","u","l","d"," ","y",
       "o","u"," ","p","l","e","a","s","e"," ","r","e","p","h","r","a","s","e"," ","y","o","u",
       "r"," ","q","u","e","s","t","i","o","n","?" >>

\* "I apologize, but I'm having trouble processing your request right now."
GEN_APOLOGY ==
    << "I"," ","a","p","o","l","o","g","i","z","e",","," ","b","u","t"," ","I","'","m"," ","h",
       "a","v","i","n","g"," ","t","r","o","u","b","l","e"," ","p","r","o","c","e","s","s","i",
       "n","g"," ","y","o","u","r"," ","r","e","q","u","e","s","t"," ","r","i","g","h","t"," ",
       "n","o","w","." >>

\* What the executor hands back for self.pipeline(prompt, ...): a list of
\* candidates, or an exception raised by the model invocation
PipelineReturned(candidates) == [ kind |-> "returned", candidates |-> candidates ]

PipelineRaised == [ kind |-> "raised", candidates |-> << >> ]

\* a _generate_response that calls the pipeline a second time when the first call
\* raised
GenerateResponseRetry(outcome) ==
    IF outcome.kind = "raised"
    THEN [ raised |-> FALSE, text |-> GEN_APOLOGY, invocations |-> 2 ]
    ELSE IF Len(outcome.candidates) > 0
         THEN [ raised |-> FALSE, text |-> outcome.candidates[1], invocations |-> 1 ]
         ELSE [ raised |-> FALSE, text |-> GEN_NO_CANDIDATE, invocations |-> 1 ]

\* _generate_response(prompt), given what the pipeline did: the first candidate's
\* generated_text, the canned sentence when there is no candidate, and the canned
\* apology when the invocation raised (except Exception: ... return).  raised says
\* whether the coroutine itself ends with an exception, invocations how many times
\* self.pipeline was called: the lambda calls it once and nothing calls it again.
GenerateResponse(outcome) ==
    IF outcome.kind = "raised"
    THEN [ raised |-> FALSE, text |-> GEN_APOLOGY, invocations |-> 1 ]
    ELSE IF Len(outcome.candidates) > 0
         THEN [ raised |-> FALSE, text |-> outcome.candidates[1], invocations |-> 1 ]
         ELSE [ raised |-> FALSE, text |-> GEN_NO_CANDIDATE, invocations |-> 1 ]

\* --------------------------------------------------------------------------
\* ResponseCleaner: AIService._clean_response
\* --------------------------------------------------------------------------

\* "I'm not sure how to respond to that. Could you please rephrase your question?"
CLEAN_NO_RESPONSE ==
    << "I","'","m"," ","n","o","t"," ","s","u","r","e"," ","h","o","w"," ","t","o"," ","r","e",
       "s","p","o","n","d"," ","t","o"," ","t","h","a","t","."," ","C","o","u","l","d"," ","y",
       "o","u"," ","p","l","e","a","s","e"," ","r","e","p","h","r","a","s","e"," ","y","o","u",
       "r"," ","q","u","e","s","t","i","o","n","?" >>

\* 'I understand your question. How can I help you further?'
CLEAN_EMPTY ==
    << "I"," ","u","n","d","e","r","s","t","a","n","d"," ","y","o","u","r"," ","q","u","e","s",
       "t","i","o","n","."," ","H","o","w"," ","c","a","n"," ","I"," ","h","e","l","p"," ","y",
       "o","u"," ","f","u","r","t","h","e","r","?" >>

\* prefixes_to_remove

prefixes_to_remove ==
    << << "A","S","S","I","S","T","A","N","T",":" >>,
       << "A","s","s","i","s","t","a","n","t",":" >>,
       << "A","I",":" >>,
       << "B","o","t",":" >> >>

\* '...'
Ellipsis ==
    << ".",".","." >>

\* the length cleaned responses are cut to
MaxResponseLen == 500

\* the for-loop over prefixes_to_remove from entry k on
RECURSIVE StripPrefixes(_, _)
StripPrefixes(cleaned, k) ==
    IF k > Len(prefixes_to_remove) THEN cleaned
    ELSE IF StartsWith(cleaned, prefixes_to_remove[k])
         THEN StripPrefixes(Strip(SliceFrom(cleaned, Len(prefixes_to_remove[k]))), k + 1)
         ELSE StripPrefixes(cleaned, k + 1)

\* _clean_response without the "if not cleaned" substitution
CleanResponseNoFallback(response, original_message) ==
    IF ~Truthy(response) THEN CLEAN_NO_RESPONSE
    ELSE LET cleaned == StripPrefixes(Strip(RemoveAll(response, original_message)), 1)
         IN  IF Len(cleaned) > MaxResponseLen
             THEN Slice(cleaned, 0, MaxResponseLen) \o Ellipsis
             ELSE cleaned

\* _clean_response(response, original_message)
CleanResponse(response, original_message) ==
    IF ~Truthy(response) THEN CLEAN_NO_RESPONSE
    ELSE LET stripped == StripPrefixes(Strip(RemoveAll(response, original_message)), 1)
             cleaned == IF stripped = << >> THEN CLEAN_EMPTY ELSE stripped
         IN  IF Len(cleaned) > MaxResponseLen
             THEN Slice(cleaned, 0, MaxResponseLen) \o Ellipsis
             ELSE cleaned

\* --------------------------------------------------------------------------
\* ConversationStore: AIService.conversation_memory, a dict from id to list
\* --------------------------------------------------------------------------

\* the number of most recent turns chat() keeps per conversation
MaxTurns == 10

\* get_conversation_history(conversation_id): conversation_memory.get(id, [])
GetHistory(mem, id) == IF id \in DOMAIN mem THEN mem[id] ELSE << >>

\* a clear_conversation that deletes nothing
ClearNothing(mem, id) == mem

\* clear_conversation(conversation_id): del conversation_memory[id] when present
ClearHistory(mem, id) == [ k \in DOMAIN mem \ {id} |-> mem[k] ]

\* turns[:10] in place of turns[-10:]: the oldest entries are kept
KeepOldest(turns) == IF Len(turns) > MaxTurns THEN SubSeq(turns, 1, MaxTurns) ELSE turns

\* turns[-9:] in place of turns[-10:]: one entry too many is dropped
KeepNine(turns) == IF Len(turns) > MaxTurns THEN LastN(turns, MaxTurns - 1) ELSE turns

\* what chat() keeps after extending the list: the list, or its last 10 entries
\* when it holds more than 10
KeepRecent(turns) == IF Len(turns) > MaxTurns THEN LastN(turns, MaxTurns) ELSE turns

\* an assignment in place of extend(): the list is replaced by the two new turns
StoreExchangeOverwrite(mem, id, message, cleaned_response) ==
    [ k \in DOMAIN mem \cup {id} |->
        IF k = id THEN << ChatMessage("user", message),
                          ChatMessage("assistant", cleaned_response) >>
        ELSE mem[k] ]

\* chat() lines 269-280: create the list when the id is new, extend it with the
\* user turn and the assistant turn, keep the last 10
StoreExchange(mem, id, message, cleaned_response) ==
    LET old == IF id \in DOMAIN mem THEN mem[id] ELSE << >>
        extended == old \o << ChatMessage("user", message),
                              ChatMessage("assistant", cleaned_response) >>
    IN  [ k \in DOMAIN mem \cup {id} |-> IF k = id THEN KeepRecent(extended) ELSE mem[k] ]

\* --------------------------------------------------------------------------
\* ChatOrchestrator: the results of AIService.chat
\* (processing_time, a difference of two clock readings, is left out)
\* --------------------------------------------------------------------------

\* len(text) in place of len(text.split())
WordCountChars(text) == Len(text)

\* len(text.split())
WordCount(text) == Len(Split(text))

\* "I apologize, but I'm experiencing technical difficulties. Please try again in a moment."
CHAT_APOLOGY ==
    << "I"," ","a","p","o","l","o","g","i","z","e",","," ","b","u","t"," ","I","'","m"," ","e",
       "x","p","e","r","i","e","n","c","i","n","g"," ","t","e","c","h","n","i","c","a","l"," ",
       "d","i","f","f","i","c","u","l","t","i","e","s","."," ","P","l","e","a","s","e"," ","t",
       "r","y"," ","a","g","a","i","n"," ","i","n"," ","a"," ","m","o","m","e","n","t","." >>

\* --------------------------------------------------------------------------
\* Inputs
\* --------------------------------------------------------------------------

\* 'hi'
M_hi ==
    << "h","i" >>

\* 'thanks!'
M_thanks ==
    << "t","h","a","n","k","s","!" >>

\* 'Need LEGAL advice'
M_legal ==
    << "N","e","e","d"," ","L","E","G","A","L"," ","a","d","v","i","c","e" >>

\* 'What are your hours?'
M_hours ==
    << "W","h","a","t"," ","a","r","e"," ","y","o","u","r"," ","h","o","u","r","s","?" >>

\* 'legal advice hours'
M_both ==
    << "l","e","g","a","l"," ","a","d","v","i","c","e"," ","h","o","u","r","s" >>

\* the messages callers send: one with no keyword, one with a restricted phrase, one
\* with a trigger keyword, one with both
Messages == { M_hi, M_legal, M_hours, M_both }

\* the messages callers send in SpecStore: none has a keyword or a restricted phrase
StoreMessages == { M_hi, M_thanks }

AllMessages == Messages \cup StoreMessages

\* 'Assistant: Hello'
T_hello ==
    << "A","s","s","i","s","t","a","n","t",":"," ","H","e","l","l","o" >>

\* 'VIP'
C_vip ==
    << "V","I","P" >>

\* a caller-supplied conversation_history of four turns
H_four ==
    << ChatMessage("user", M_hi), ChatMessage("assistant", T_hello),
       ChatMessage("user", M_thanks), ChatMessage("assistant", T_hello) >>


\* what the pipeline can do for a call: return one candidate (a reply with a
\* role-label prefix, or the echoed message alone), return no candidate, or raise
Outcomes(message) ==
    { PipelineReturned(<< T_hello >>), PipelineReturned(<< message >>),
      PipelineReturned(<< >>), PipelineRaised }

\* the ids str(uuid.uuid4()) returns, in the order it returns them: each differs
\* from the ones before it and from the ids callers choose themselves
UUIDs == << "uuid-1", "uuid-2", "uuid-3", "uuid-4" >>

\* the ids callers choose themselves
CallerIds == { "a" }

\* --------------------------------------------------------------------------
\* The pure functions of the pipeline, tabulated once over the inputs above (the
\* value of each table entry is the function's own result; an argument outside a
\* table is computed directly)
\* --------------------------------------------------------------------------

Configs == { LoadBusinessConfig(s) : s \in Environments }

\* the texts _generate_response can return
GeneratedTexts ==
    UNION { { GenerateResponse(o).text : o \in Outcomes(m) } : m \in AllMessages }

IsOnTopicTable == [ cfg \in Configs, m \in AllMessages |-> IsOnTopic(m, cfg) ]

GetDirectAnswerTable == [ s \in Environments, m \in AllMessages |-> GetDirectAnswer(m, s) ]

CleanResponseTable == [ t \in GeneratedTexts, m \in AllMessages |-> CleanResponse(t, m) ]

\* the texts chat() returns as response and counts the words of
ResponseTexts ==
    { GetDirectAnswerTable[x] : x \in DOMAIN GetDirectAnswerTable }
    \cup { CleanResponseTable[x] : x \in DOMAIN CleanResponseTable }

WordCountTable == [ t \in ResponseTexts \ {NoneStr} |-> WordCount(t) ]

\* self._is_on_topic(message)
is_on_topic(message, cfg) ==
    IF << cfg, message >> \in DOMAIN IsOnTopicTable
    THEN IsOnTopicTable[cfg, message] ELSE IsOnTopic(message, cfg)

\* self._get_direct_answer(message)
get_direct_answer(message, s) ==
    IF << s, message >> \in DOMAIN GetDirectAnswerTable
    THEN GetDirectAnswerTable[s, message] ELSE GetDirectAnswer(message, s)

\* self._clean_response(response, message)
clean_response(response, message) ==
    IF << response, message >> \in DOMAIN CleanResponseTable
    THEN CleanResponseTable[response, message] ELSE CleanResponse(response, message)

\* len(text.split())
word_count(text) ==
    IF text \in DOMAIN WordCountTable THEN WordCountTable[text] ELSE WordCount(text)

\* the dict returned when the topic gate rejects the message
RejectedResult(redirect_message, conversation_id) ==
    [ response        |-> redirect_message,
      conversation_id |-> conversation_id,
      model_used      |-> "business_rules",
      tokens_used     |-> 0 ]

\* the dict returned when the business details answer the message
DirectResult(direct_answer, conversation_id) ==
    [ response        |-> direct_answer,
      conversation_id |-> conversation_id,
      model_used      |-> "business_knowledge",
      tokens_used     |-> word_count(direct_answer) ]

\* a result labelled with the configured MODEL_NAME, not with the model that was loaded
GeneratedResultConfigured(cleaned_response, conversation_id, name) ==
    [ response        |-> cleaned_response,
      conversation_id |-> conversation_id,
      model_used      |-> DEFAULT_MODEL_NAME,
      tokens_used     |-> word_count(cleaned_response) ]

\* the dict returned at the end of the try block
GeneratedResult(cleaned_response, conversation_id, name) ==
    [ response        |-> cleaned_response,
      conversation_id |-> conversation_id,
      model_used      |-> name,
      tokens_used     |-> word_count(cleaned_response) ]

\* the dict returned by chat()'s except Exception handler
ErrorResult(conversation_id) ==
    [ response        |-> CHAT_APOLOGY,
      conversation_id |-> conversation_id,
      model_used      |-> "error_handler",
      tokens_used     |-> 0 ]

\* --------------------------------------------------------------------------
\* Bounds
\* --------------------------------------------------------------------------

\* concurrent chat() calls
NumCalls == 2

Calls == 1..NumCalls

\* chat() calls started in one behaviour
MaxStarted == 2

\* conversation ids generated in one behaviour
MaxIssued == 2

\* --------------------------------------------------------------------------
\* State
\* --------------------------------------------------------------------------

VARIABLES
    settings,             \* the Settings instance
    business_config,      \* AIService.business_config
    model_name,           \* AIService.model_name
    conversation_memory,  \* AIService.conversation_memory
    calls,                \* the chat() coroutines suspended at the await, with their locals
    returned,             \* the chat() call that returned last: its arguments and its result
    issued,               \* how many ids uuid4() has returned
    started,              \* how many chat() calls have started
    log,                  \* per id, the (message, returned response) turns of the calls
                          \* that stored an exchange since the id was last cleared
    probe                 \* what was last noted of the service: a direct call of one of
                          \* its pure methods with what it returned, or something a
                          \* chat() call produced with the store as it was then

vars == << settings, business_config, model_name, conversation_memory, calls, returned,
           issued, started, log, probe >>

\* a coroutine slot with no call in it
Idle ==
    [ pc |-> "idle", message |-> << >>, supplied |-> NoneId, conversation_id |-> NoneId,
      conversation_history |-> << >>, context |-> NoneStr, prompt |-> << >>, suspensions |-> 0, invocations |-> 0, cleared |-> FALSE ]

\* no call has returned yet
NoReturn ==
    [ branch |-> "none", message |-> << >>, supplied |-> NoneId, pipeline |-> "none",
      suspensions |-> 0, invocations |-> 0, cleared |-> FALSE, overlapped |-> FALSE,
      result |-> [ response |-> NoneStr, conversation_id |-> NoneId,
                   model_used |-> "<None>", tokens_used |-> 0 ] ]

\* a call that returns result on the given branch of chat(); pipeline is what the
\* model invocation did ("none" when the call never reached it), invocations how
\* many times the call invoked the model, cleared whether its conversation was
\* cleared while it was suspended, overlapped whether another call for the same
\* conversation was suspended when this one returned
Return(branch, message, supplied, pipeline, suspensions, invocations, cleared, overlapped, result) ==
    [ branch |-> branch, message |-> message, supplied |-> supplied, pipeline |-> pipeline,
      suspensions |-> suspensions, invocations |-> invocations, cleared |-> cleared,
      overlapped |-> overlapped, result |-> result ]

\* another coroutine than c is suspended in a call for conversation id
Overlaps(c, id) ==
    \E d \in Calls \ {c} : calls[d].pc = "generating" /\ calls[d].conversation_id = id

\* a coroutine whose prompt also holds the turns stored for its conversation
AwaitWithStoredTurns(call) ==
    [ call EXCEPT !.pc = "generating", !.suspensions = @ + 1,
                  !.prompt = @ \o << BuildConversationContext(
                                        GetHistory(conversation_memory, call.conversation_id)) >> ]

\* a coroutine that yields a second time before it reaches the executor
AwaitTwice(call) == [ call EXCEPT !.pc = "generating", !.suspensions = @ + 2 ]

\* the coroutine reaches "await loop.run_in_executor(...)": it yields to the event
\* loop until the executor is done
Await(call) == [ call EXCEPT !.pc = "generating", !.suspensions = @ + 1 ]

\* log with the two turns of an exchange appended under id
Logged(id, message, response) ==
    [ k \in DOMAIN log \cup {id} |->
        (IF k \in DOMAIN log THEN log[k] ELSE << >>)
        \o (IF k = id THEN << [ role |-> "user", content |-> message ],
                              [ role |-> "assistant", content |-> response ] >>
            ELSE << >>) ]

\* the ids in use: chosen by callers or already generated
IdsInUse == CallerIds \cup { UUIDs[i] : i \in 1..issued }

\* no method has been called directly
NoProbe == [ fn |-> "none", message |-> << >>, raw |-> << >>, result |-> << >> ]

\* a direct call of method fn with a message (and, for the cleaner, a raw text)
Probe(fn, message, raw, result) ==
    [ fn |-> fn, message |-> message, raw |-> raw, result |-> result ]

\* The deployments: an environment, and whether initialize() loaded MODEL_NAME or
\* fell back to the smaller model
Deployments ==
    { [ settings |-> DefaultSettings, fallback |-> FALSE ],
      [ settings |-> ShopSettings, fallback |-> TRUE ] }

\* The service after startup (lifespan): AIService() then initialize(), which keeps
\* MODEL_NAME or, when loading it fails, switches to the fallback model
Init ==
    /\ \E d \in Deployments :
          /\ settings = d.settings
          /\ model_name = IF d.fallback THEN FALLBACK_MODEL_NAME ELSE d.settings.MODEL_NAME
    /\ business_config = LoadBusinessConfig(settings)
    /\ conversation_memory = [ k \in {} |-> << >> ]
    /\ calls = [ c \in Calls |-> Idle ]
    /\ returned = NoReturn
    /\ issued = 0
    /\ started = 0
    /\ log = [ k \in {} |-> << >> ]
    /\ probe = NoProbe

\* --------------------------------------------------------------------------
\* chat()
\* --------------------------------------------------------------------------

\* an id generated whether or not the caller sent one
ResolveIdAlwaysFresh(conversation_id, n) == UUIDs[n + 1]

\* lines 218-220: the caller's id when it is truthy, else str(uuid.uuid4()), the
\* n+1st id generated
ResolveId(conversation_id, n) ==
    IF TruthyId(conversation_id) THEN conversation_id ELSE UUIDs[n + 1]

\* chat() from its first line to the await in _generate_response.  With no await
\* on the way, a call that the gate rejects or that the business details answer
\* returns in this same step; any other call builds the prompt, hands it to the
\* executor and suspends.  (The coroutine slots are interchangeable: a call takes
\* the first free one.)
ChatStart(c, message, conversation_id, conversation_history, context) ==
    /\ calls[c].pc = "idle"
    /\ \A d \in Calls : d < c => calls[d].pc # "idle"
    /\ ~TruthyId(conversation_id) => issued < MaxIssued
    /\ LET id == ResolveId(conversation_id, issued)
           gate == is_on_topic(message, business_config)
           direct_answer == get_direct_answer(message, settings)
       IN  IF ~gate.allowed
           THEN /\ returned' = Return("rejected", message, conversation_id, "none", 0,
                                      Idle.invocations, Idle.cleared, Overlaps(c, id), RejectedResult(gate.redirect, id))
                /\ UNCHANGED calls
           ELSE IF Truthy(direct_answer)
           THEN /\ returned' = Return("direct", message, conversation_id, "none", 0,
                                      Idle.invocations, Idle.cleared, Overlaps(c, id), DirectResult(direct_answer, id))
                /\ UNCHANGED calls
           ELSE /\ calls' = [ calls EXCEPT ![c] =
                     Await([ Idle EXCEPT
                               !.message = message,
                               !.supplied = conversation_id,
                               !.conversation_id = id,
                               !.conversation_history = conversation_history,
                               !.context = context,
                               !.prompt = CreateBusinessPrompt(message,
                                   ConversationContext(conversation_history, context),
                                   business_config, settings) ]) ]
                /\ UNCHANGED returned
    /\ issued' = IF TruthyId(conversation_id) THEN issued ELSE issued + 1
    /\ started' = started + 1
    /\ UNCHANGED << settings, business_config, model_name, conversation_memory, log,
                    probe >>

\* chat() from the await to its return, given what the pipeline did in the executor:
\* _generate_response ends, the text is cleaned, the exchange is stored and the
\* result returned; an exception out of the try block returns the error result
ChatResume(c, outcome) ==
    /\ calls[c].pc = "generating"
    /\ LET call == calls[c]
           response == GenerateResponse(outcome)
           cleaned_response == clean_response(response.text, call.message)
       IN  IF response.raised
           THEN /\ returned' = Return("error", call.message, call.supplied, outcome.kind,
                                      call.suspensions,
                                      call.invocations + response.invocations, call.cleared,
                                      Overlaps(c, call.conversation_id),
                                      ErrorResult(call.conversation_id))
                /\ UNCHANGED << conversation_memory, log >>
           ELSE /\ conversation_memory' =
                        StoreExchange(conversation_memory, call.conversation_id,
                                      call.message, cleaned_response)
                /\ returned' = Return("generated", call.message, call.supplied,
                                      outcome.kind, call.suspensions,
                                      call.invocations + response.invocations,
                                      call.cleared,
                                      Overlaps(c, call.conversation_id),
                                      GeneratedResult(cleaned_response,
                                                      call.conversation_id, model_name))
                /\ log' = Logged(call.conversation_id, call.message,
                                 returned'.result.response)
    /\ calls' = [ calls EXCEPT ![c] = Idle ]
    /\ UNCHANGED << settings, business_config, model_name, issued, started, probe >>

\* --------------------------------------------------------------------------
\* The conversation endpoints (app/api/chat.py): no await, one step each
\* --------------------------------------------------------------------------

\* the body GET /conversation/{conversation_id} answers with
GetConversationResponse(id) ==
    LET history == GetHistory(conversation_memory, id)
    IN  [ conversation_id |-> id, messages |-> history, message_count |-> Len(history) ]

\* GET /conversation/{conversation_id}: reads the store, changes nothing
GetConversation(id) ==
    /\ GetConversationResponse(id).message_count >= 0
    /\ UNCHANGED vars

\* the coroutines after a clear of id: none is touched; when the clear deleted
\* turns, those suspended in a call for id are noted as having had their
\* conversation cleared meanwhile
NotedCleared(id) ==
    [ c \in Calls |->
        IF calls[c].pc = "generating" /\ calls[c].conversation_id = id
              /\ id \in DOMAIN conversation_memory
        THEN [ calls[c] EXCEPT !.cleared = TRUE ]
        ELSE calls[c] ]

\* a clear that also cancels the calls suspended for the conversation
ClearConversationCancels(id) ==
    /\ conversation_memory' = ClearHistory(conversation_memory, id)
    /\ log' = [ k \in DOMAIN log \ {id} |-> log[k] ]
    /\ calls' = [ c \in Calls |->
                    IF calls[c].pc = "generating" /\ calls[c].conversation_id = id
                    THEN Idle ELSE calls[c] ]
    /\ UNCHANGED << settings, business_config, model_name, returned, issued, started,
                    probe >>

\* DELETE /conversation/{conversation_id}
ClearConversation(id) ==
    /\ conversation_memory' = ClearHistory(conversation_memory, id)
    /\ log' = [ k \in DOMAIN log \ {id} |-> log[k] ]
    /\ calls' = NotedCleared(id)
    /\ UNCHANGED << settings, business_config, model_name, returned, issued, started,
                    probe >>

\* --------------------------------------------------------------------------
\* Specification
\* --------------------------------------------------------------------------

Next ==
    \/ \E c \in Calls, message \in Messages, id \in {NoneId, ""} \cup IdsInUse :
          /\ started < MaxStarted
          /\ ChatStart(c, message, id, H_four, C_vip)
    \/ \E c \in Calls : \E outcome \in Outcomes(calls[c].message) : ChatResume(c, outcome)
    \/ \E id \in IdsInUse : GetConversation(id)
    \/ \E id \in IdsInUse : ClearConversation(id)

Spec == Init /\ [][Next]_vars

\* --------------------------------------------------------------------------
\* The store under load: many exchanges on few conversations.  The service runs
\* with the default settings, every message reaches the generation step, and the
\* pipeline answers.
\* --------------------------------------------------------------------------

\* chat() calls started in one behaviour of SpecStore
MaxStoreStarted == 7

\* ids uuid4() returns in one behaviour of SpecStore: the callers send theirs
MaxStoreIssued == 0

StoreOutcomes == { PipelineReturned(<< T_hello >>) }

InitStore ==
    /\ Init
    /\ settings = DefaultSettings

NextStore ==
    \/ \E c \in Calls, message \in StoreMessages, id \in CallerIds \cup {NoneId} :
          /\ started < MaxStoreStarted
          /\ id = NoneId => issued < MaxStoreIssued
          /\ ChatStart(c, message, id, << >>, NoneStr)
    \/ \E c \in Calls : \E outcome \in StoreOutcomes : ChatResume(c, outcome)
    \/ \E id \in IdsInUse : GetConversation(id)
    \/ \E id \in IdsInUse : ClearConversation(id)

SpecStore == InitStore /\ [][NextStore]_vars

\* --------------------------------------------------------------------------
\* The topic gate on its own: _is_on_topic(message) called on a service whose
\* RESTRICTED_TOPICS comes from the environment
\* --------------------------------------------------------------------------

\* the longest message drawn letter by letter
MaxGateLen == 3

GateAlphabet == { "a", "b", "B" }

\* all strings of at most n characters over an alphabet
StringsUpTo(alphabet, n) == UNION { [ 1..k -> alphabet ] : k \in 0..n }

\* 'Can you give me medical advice?'
M_medical ==
    << "C","a","n"," ","y","o","u"," ","g","i","v","e"," ","m","e"," ","m","e","d","i","c","a",
       "l"," ","a","d","v","i","c","e","?" >>

\* the values of RESTRICTED_TOPICS: one phrase, several phrases in either order with
\* blanks to strip, an empty value, an empty phrase in the middle, the default
GateRestricted ==
    { << "A", "b" >>,
      << "A", "b", ",", "B" >>,
      << "B", ",", " ", "a", "b" >>,
      << >>,
      << "b", "a", ",", ",", "a" >>,
      DEFAULT_RESTRICTED_TOPICS }

GateMessages == StringsUpTo(GateAlphabet, MaxGateLen) \cup { M_medical, M_legal, M_hi }

\* the service started with the settings s, MODEL_NAME loaded, and no request yet
ServiceWith(s) ==
    /\ settings = s
    /\ business_config = LoadBusinessConfig(settings)
    /\ model_name = settings.MODEL_NAME
    /\ conversation_memory = [ k \in {} |-> << >> ]
    /\ calls = [ c \in Calls |-> Idle ]
    /\ returned = NoReturn
    /\ issued = 0
    /\ started = 0
    /\ log = [ k \in {} |-> << >> ]
    /\ probe = NoProbe

\* the service started with some RESTRICTED_TOPICS
InitGate ==
    \E r \in GateRestricted : ServiceWith([ DefaultSettings EXCEPT !.RESTRICTED_TOPICS = r ])

\* _is_on_topic(message)
CheckTopic(message) ==
    /\ probe' = Probe("is_on_topic", message, << >>, IsOnTopic(message, business_config))
    /\ UNCHANGED << settings, business_config, model_name, conversation_memory, calls,
                    returned, issued, started, log >>

NextGate == \E message \in GateMessages : CheckTopic(message)

SpecGate == InitGate /\ [][NextGate]_vars

\* --------------------------------------------------------------------------
\* The fact extractor on its own: _get_direct_answer(message) called on a service
\* whose BUSINESS_DETAILS comes from the environment
\* --------------------------------------------------------------------------

\* the pieces of a message: one trigger keyword of each topic, in some letter case,
\* and a word that is no keyword
ExtractFragments ==
    { << "H","o","u","r","s" >>,
      << "a","d","d","r","e","s","s" >>,
      << "c","a","l","l" >>,
      << "C","O","S","T" >>,
      << "s","h","i","p" >>,
      << "r","e","f","u","n","d" >>,
      << "s","e","r","v","i","c","e" >>,
      << "h","e","l","l","o" >> }

\* 'What are your business hours?'
M_business_hours ==
    << "W","h","a","t"," ","a","r","e"," ","y","o","u","r"," ","b","u","s","i","n","e","s","s",
       " ","h","o","u","r","s","?" >>

\* the messages: nothing, one fragment, two fragments joined by a blank, a sentence
ExtractMessages ==
    { << >>, M_business_hours }
        \cup ExtractFragments
        \cup { Join(<< f, g >>, << " " >>) : f, g \in ExtractFragments }

\* 'Hours: 9am-6pm Mon-Fri.'
D_hours ==
    << "H","o","u","r","s",":"," ","9","a","m","-","6","p","m"," ","M","o","n","-","F","r","i",
       "." >>

\* 'Location: 1 Main St. Phone: 555-0100, Email: a@b.c'
D_contact ==
    << "L","o","c","a","t","i","o","n",":"," ","1"," ","M","a","i","n"," ","S","t","."," ","P",
       "h","o","n","e",":"," ","5","5","5","-","0","1","0","0",","," ","E","m","a","i","l",":",
       " ","a","@","b",".","c" >>

\* 'Returns ok. Services: repair'
D_late ==
    << "R","e","t","u","r","n","s"," ","o","k","."," ","S","e","r","v","i","c","e","s",":"," ",
       "r","e","p","a","i","r" >>

\* 'PRICING: $5 a month. SHIPPING: free'
D_upper ==
    << "P","R","I","C","I","N","G",":"," ","$","5"," ","a"," ","m","o","n","t","h","."," ","S",
       "H","I","P","P","I","N","G",":"," ","f","r","e","e" >>

\* 'email us'
D_email ==
    << "e","m","a","i","l"," ","u","s" >>

\* the values of BUSINESS_DETAILS: anchors of some topics only, in either letter
\* case, with and without a closing ".", none at all, the default, the shop's
ExtractDetails ==
    { D_hours, D_contact, D_late, D_upper, D_email, << >>,
      DEFAULT_BUSINESS_DETAILS, SHOP_BUSINESS_DETAILS }

\* the service started with some BUSINESS_DETAILS
InitExtract ==
    \E d \in ExtractDetails : ServiceWith([ DefaultSettings EXCEPT !.BUSINESS_DETAILS = d ])

\* _get_direct_answer over these inputs, evaluated once
ExtractTable ==
    [ d \in ExtractDetails, m \in ExtractMessages |->
        GetDirectAnswer(m, [ DefaultSettings EXCEPT !.BUSINESS_DETAILS = d ]) ]

\* _get_direct_answer(message)
ExtractAnswer(message) ==
    /\ probe' = Probe("get_direct_answer", message, << >>,
                      IF << settings.BUSINESS_DETAILS, message >> \in DOMAIN ExtractTable
                      THEN ExtractTable[settings.BUSINESS_DETAILS, message]
                      ELSE GetDirectAnswer(message, settings))
    /\ UNCHANGED << settings, business_config, model_name, conversation_memory, calls,
                    returned, issued, started, log >>

NextExtract == \E message \in ExtractMessages : ExtractAnswer(message)

SpecExtract == InitExtract /\ [][NextExtract]_vars

\* --------------------------------------------------------------------------
\* The response cleaner on its own: _clean_response(response, original_message)
\* --------------------------------------------------------------------------

\* a text of n characters with no blank in it
LongText(n) == [ i \in 1..n |-> "x" ]

\* the pieces of a raw response: blanks, role labels, the words of the messages, a
\* text as long as the cap
CleanPieces ==
    { << " " >>, << "A","I",":" >>, << "A","s","s","i","s","t","a","n","t",":" >>,
      M_hi, << "H","e","l","l","o" >>, LongText(MaxResponseLen) }

\* the raw responses: nothing, one piece, two pieces one after the other
CleanRaws == { << >> } \cup CleanPieces \cup { f \o g : f, g \in CleanPieces }

\* the original messages: two words and a role label
CleanMessages == { M_hi, << "H","e","l","l","o" >>, << "A","I",":" >> }

\* _clean_response over these inputs, evaluated once
CleanTable == [ raw \in CleanRaws, m \in CleanMessages |-> CleanResponse(raw, m) ]

InitClean == ServiceWith(DefaultSettings)

\* _clean_response(raw, message)
CleanRaw(raw, message) ==
    /\ probe' = Probe("clean_response", message, raw,
                      IF << raw, message >> \in DOMAIN CleanTable
                      THEN CleanTable[raw, message]
                      ELSE CleanResponse(raw, message))
    /\ UNCHANGED << settings, business_config, model_name, conversation_memory, calls,
                    returned, issued, started, log >>

NextClean == \E raw \in CleanRaws, message \in CleanMessages : CleanRaw(raw, message)

SpecClean == InitClean /\ [][NextClean]_vars

\* --------------------------------------------------------------------------
\* The same calls against different stores: chat() with few inputs, the store
\* changing under it, and an observer who notes down a result or a prompt with the
\* store of that moment to compare it with later ones
\* --------------------------------------------------------------------------

\* chat() calls started in one behaviour of SpecIsolation
MaxIsolationStarted == 2

IsolationMessages == { M_hi, M_legal }

\* a history that differs from H_four in its first turn only
H_other ==
    << ChatMessage("user", M_legal), ChatMessage("assistant", T_hello),
       ChatMessage("user", M_thanks), ChatMessage("assistant", T_hello) >>

\* a history that differs from H_four in its last turn
H_short ==
    << ChatMessage("user", M_hi), ChatMessage("assistant", T_hello),
       ChatMessage("user", M_thanks) >>

IsolationHistories == { H_four, H_other, H_short }

IsolationOutcomes == { PipelineReturned(<< T_hello >>), PipelineRaised }

InitIsolation == ServiceWith(DefaultSettings)

\* the observer notes the result of the call that returned last
NoteResult ==
    /\ returned.branch # "none"
    /\ probe' = Probe("chat", returned.message, << >>,
                      [ returned |-> returned, store |-> conversation_memory ])
    /\ UNCHANGED << settings, business_config, model_name, conversation_memory, calls,
                    returned, issued, started, log >>

\* the observer notes the prompt that suspended call c handed to the model
NotePrompt(c) ==
    /\ calls[c].pc = "generating"
    /\ probe' = Probe("prompt", calls[c].message, calls[c].prompt,
                      [ conversation_history |-> calls[c].conversation_history,
                        context |-> calls[c].context,
                        store |-> conversation_memory ])
    /\ UNCHANGED << settings, business_config, model_name, conversation_memory, calls,
                    returned, issued, started, log >>

NextIsolation ==
    \/ \E c \in Calls, message \in IsolationMessages, id \in CallerIds,
          conversation_history \in IsolationHistories :
          /\ started < MaxIsolationStarted
          /\ ChatStart(c, message, id, conversation_history, C_vip)
    \/ \E c \in Calls : \E outcome \in IsolationOutcomes : ChatResume(c, outcome)
    \/ \E id \in CallerIds : ClearConversation(id)
    \/ NoteResult
    \/ \E c \in Calls : NotePrompt(c)

SpecIsolation == InitIsolation /\ [][NextIsolation]_vars

\* --------------------------------------------------------------------------
\* Properties
\* --------------------------------------------------------------------------

\* some restricted phrase of the configuration occurs in the message, letter case
\* aside
HasRestricted(message, cfg) ==
    \E i \in 1..Len(cfg.restricted_topics) :
        Contains(Lower(cfg.restricted_topics[i]), Lower(message))

\* the anchor(s) of a topic, lower-cased, occur in the lower-cased details blob
AnchorPresent(topic, details) ==
    LET blob == Lower(details)
    IN  \/ topic = "hours" /\ Contains(A_hours, blob)
        \/ topic = "location" /\ Contains(A_location, blob)
        \/ topic = "contact" /\ (Contains(A_phone, blob) \/ Contains(A_email, blob))
        \/ topic = "pricing" /\ Contains(A_pricing, blob)
        \/ topic = "shipping" /\ Contains(A_shipping, blob)
        \/ topic = "returns" /\ Contains(A_return, blob)
        \/ topic = "services" /\ Contains(A_services, blob)

\* the message holds a trigger keyword of a topic whose anchor is in the blob
HasAnswerableKeyword(message, s) ==
    \E k \in 1..Len(patterns) :
        /\ \E i \in 1..Len(patterns[k].keywords) :
              Contains(patterns[k].keywords[i], Lower(message))
        /\ AnchorPresent(patterns[k].topic, s.BUSINESS_DETAILS)

\* the number of words of a text: the places where a run of non-blank characters
\* begins
CountWords(text) ==
    Cardinality({ i \in 1..Len(text) :
                    ~IsSpace(text[i]) /\ (i = 1 \/ IsSpace(text[i - 1])) })

\* a step in which coroutine c resumes from the await and returns
Resumes(c) == calls[c].pc = "generating" /\ calls'[c].pc = "idle"

\* HasRestricted, HasAnswerableKeyword and CountWords over the inputs, evaluated once
HasRestrictedTable == [ cfg \in Configs, m \in AllMessages |-> HasRestricted(m, cfg) ]

HasAnswerableKeywordTable ==
    [ s \in Environments, m \in AllMessages |-> HasAnswerableKeyword(m, s) ]

CountWordsTable == [ t \in ResponseTexts \ {NoneStr} |-> CountWords(t) ]

\* the message holds a restricted phrase of the running configuration
RestrictedNow(message) ==
    IF << business_config, message >> \in DOMAIN HasRestrictedTable
    THEN HasRestrictedTable[business_config, message]
    ELSE HasRestricted(message, business_config)

\* the message holds an answerable keyword under the running settings
AnswerableNow(message) ==
    IF << settings, message >> \in DOMAIN HasAnswerableKeywordTable
    THEN HasAnswerableKeywordTable[settings, message]
    ELSE HasAnswerableKeyword(message, settings)

\* the number of words of a response
WordsOf(text) ==
    IF text \in DOMAIN CountWordsTable THEN CountWordsTable[text] ELSE CountWords(text)

\* C1: a message that contains a configured restricted-topic phrase (as a
\* case-insensitive substring) is answered with model_used = "business_rules" and
\* tokens_used = 0, and the step in which that call runs leaves the
\* ConversationStore as it was.
C1_RestrictedIsRejected ==
    /\ [](returned.branch # "none" /\ RestrictedNow(returned.message)
            => /\ returned.branch = "rejected"
               /\ returned.result.model_used = "business_rules"
               /\ returned.result.tokens_used = 0)
    /\ [](\A c \in Calls : calls[c].pc = "generating" => ~RestrictedNow(calls[c].message))
    /\ [][started' # started /\ returned'.branch = "rejected" /\ calls' = calls
            => conversation_memory' = conversation_memory]_vars

\* C1 witness: a message holding a restricted phrase in another letter case was
\* rejected for a conversation that has stored turns
C1_Witness ==
    /\ returned.branch = "rejected"
    /\ RestrictedNow(returned.message)
    /\ \A i \in 1..Len(business_config.restricted_topics) :
          ~Contains(business_config.restricted_topics[i], returned.message)
    /\ returned.result.conversation_id \in DOMAIN conversation_memory

\* C2 (as stated): every message that matches a trigger keyword whose anchor is in
\* the business-details blob is answered with model_used = "business_knowledge"
\* and tokens_used equal to the word count of the response.
C2_Original ==
    returned.branch # "none" /\ AnswerableNow(returned.message)
        => /\ returned.result.model_used = "business_knowledge"
           /\ returned.result.tokens_used = WordsOf(returned.result.response)

\* C2 (amended): every message that contains no restricted-topic phrase and
\* matches a trigger keyword whose anchor is in the business-details blob is
\* answered with model_used = "business_knowledge" and tokens_used equal to the
\* word count of the response, and the step leaves the ConversationStore as it was.
C2_DirectAnswer ==
    /\ [](returned.branch # "none" /\ ~RestrictedNow(returned.message)
                /\ AnswerableNow(returned.message)
            => /\ returned.branch = "direct"
               /\ returned.result.model_used = "business_knowledge"
               /\ returned.result.tokens_used = WordsOf(returned.result.response))
    /\ [](\A c \in Calls : calls[c].pc = "generating"
            => ~AnswerableNow(calls[c].message))
    /\ [][started' # started /\ returned'.branch = "direct" /\ calls' = calls
            => conversation_memory' = conversation_memory]_vars

\* C2 witness: a direct answer of several words was returned for a conversation
\* that has stored turns
C2_Witness ==
    /\ returned.branch = "direct"
    /\ AnswerableNow(returned.message)
    /\ returned.result.tokens_used > 1
    /\ returned.result.conversation_id \in DOMAIN conversation_memory

\* C3: a call whose model invocation failed returns model_used = "error_handler",
\* the canned apology of chat() and tokens_used = 0.
C3_FailureIsErrorHandler ==
    returned.pipeline = "raised"
        => /\ returned.result.model_used = "error_handler"
           /\ returned.result.response = CHAT_APOLOGY
           /\ returned.result.tokens_used = 0

\* C4: a call whose model invocation failed leaves the conversation memory
\* unchanged: neither its user turn nor an apology turn is stored.
C4_FailureStoresNothing ==
    [][\A c \in Calls : Resumes(c) /\ returned'.pipeline = "raised"
            => conversation_memory' = conversation_memory]_vars

\* C5: for every conversation id, get_history(id) is exactly the last min(2k, 10)
\* elements of user_1, assistant_1, ..., user_k, assistant_k, the turns of the k
\* generation-path calls that completed for the id since it was empty (each user
\* turn holding the call's message, each assistant turn its returned response); no
\* conversation ever holds more than 10 turns.
C5_LastTurnsKept ==
    \A id \in IdsInUse \cup DOMAIN conversation_memory \cup DOMAIN log :
        LET history == GetConversationResponse(id).messages
            turns == IF id \in DOMAIN log THEN log[id] ELSE << >>
            n == Len(turns)
            kept == IF n < 10 THEN n ELSE 10
        IN  /\ Len(history) = kept
            /\ Len(history) <= 10
            /\ \A i \in 1..kept :
                  /\ history[i].role = turns[n - kept + i].role
                  /\ history[i].content = turns[n - kept + i].content
            /\ \A i \in 1..n : turns[i].role = IF i % 2 = 1 THEN "user" ELSE "assistant"

\* C5 witness: six exchanges were stored one after another for one conversation,
\* the first with another message than the second, and the conversation holds 10
\* turns
C5_Witness ==
    /\ \A c \in Calls : calls[c].pc = "idle"
    /\ ~returned.overlapped
    /\ \E id \in DOMAIN log :
          /\ Len(log[id]) = 12
          /\ Len(conversation_memory[id]) = 10
          /\ log[id][1].content # log[id][3].content

\* C6: every chat() call, whatever branch it takes, ends by returning a result
\* whose model_used is business_rules, business_knowledge, the name of the loaded
\* model or error_handler (the label of the branch taken), with a non-empty
\* response and a non-empty conversation id; a step that ends a call returns the
\* result of that call.
C6_EveryCallReturnsResult ==
    /\ [](returned.branch # "none"
            => /\ returned.branch \in { "rejected", "direct", "generated", "error" }
               /\ returned.result.model_used \in
                      { "business_rules", "business_knowledge", model_name, "error_handler" }
               /\ returned.branch = "rejected"
                      <=> returned.result.model_used = "business_rules"
               /\ returned.branch = "direct"
                      <=> returned.result.model_used = "business_knowledge"
               /\ returned.branch = "generated" <=> returned.result.model_used = model_name
               /\ returned.branch = "error" <=> returned.result.model_used = "error_handler"
               /\ Truthy(returned.result.response)
               /\ TruthyId(returned.result.conversation_id)
               /\ returned.result.tokens_used >= 0)
    /\ [][\A c \in Calls : Resumes(c)
            => /\ returned'.branch \in { "generated", "error" }
               /\ returned'.message = calls[c].message
               /\ returned'.result.conversation_id = calls[c].conversation_id]_vars
    /\ [][started' # started /\ calls' = calls
            => returned'.branch \in { "rejected", "direct" }]_vars

\* C6 witness: with the fallback model loaded, a call whose model invocation raised
\* returned a result labelled with the name of the loaded model
C6_Witness ==
    /\ model_name # settings.MODEL_NAME
    /\ returned.branch = "generated"
    /\ returned.pipeline = "raised"
    /\ returned.result.model_used = model_name

\* C7: under any interleaving of chat(), get and clear, a generation-path call that
\* completes for id X leaves its user turn and its assistant turn as the last two
\* elements of X's history, in that order, after the turns X held before, of which
\* only the oldest are dropped to fit 10; it leaves every other conversation as it
\* was; a step that starts a call leaves the store as it was; and no history is
\* longer than 10.
C7_AppendsDoNotRace ==
    /\ [][\A c \in Calls : Resumes(c) /\ returned'.branch = "generated"
            => LET id == calls[c].conversation_id
                   old == GetHistory(conversation_memory, id)
                   new == GetHistory(conversation_memory', id)
                   n == Len(new)
               IN  /\ n = (IF Len(old) + 2 < 10 THEN Len(old) + 2 ELSE 10)
                   /\ new[n - 1].role = "user"
                   /\ new[n - 1].content = calls[c].message
                   /\ new[n].role = "assistant"
                   /\ new[n].content = returned'.result.response
                   /\ \A i \in 1..(n - 2) : new[i] = old[Len(old) - (n - 2) + i]
                   /\ \A k \in DOMAIN conversation_memory \ {id} :
                         GetHistory(conversation_memory', k) = conversation_memory[k]
                   /\ DOMAIN conversation_memory' = DOMAIN conversation_memory \cup {id}]_vars
    /\ [][started' # started => conversation_memory' = conversation_memory]_vars
    /\ [](\A id \in DOMAIN conversation_memory : Len(conversation_memory[id]) <= 10)

\* C7 witness: a call completed for a conversation while another call for the same
\* conversation was suspended, and the conversation, cut to 10 turns, ends with the
\* turns of the call
C7_Witness ==
    /\ returned.branch = "generated"
    /\ returned.overlapped
    /\ LET id == returned.result.conversation_id
       IN  /\ id \in DOMAIN conversation_memory
           /\ Len(conversation_memory[id]) = 10
           /\ Len(log[id]) > 10
           /\ conversation_memory[id][9].content = returned.message
           /\ conversation_memory[id][10].content = returned.result.response

\* C8 (as stated): every chat() call is suspended exactly once.
C8_Original ==
    returned.branch # "none" => returned.suspensions = 1

\* C8 (amended): a chat() call is suspended at most once, at the model-generation
\* step and nowhere else: exactly once when it reaches that step, with its prompt
\* built, and not at all when the gate rejects the message or the business
\* details answer it.
C8_SuspendsOnlyAtGenerator ==
    /\ returned.branch \in { "rejected", "direct" } => returned.suspensions = 0
    /\ returned.branch \in { "generated", "error" } => returned.suspensions = 1
    /\ \A c \in Calls :
          /\ calls[c].pc \in { "idle", "generating" }
          /\ calls[c].pc = "idle" => calls[c].suspensions = 0
          /\ calls[c].pc = "generating"
                => /\ calls[c].suspensions = 1
                   /\ calls[c].prompt # << >>
                   /\ ~RestrictedNow(calls[c].message)
                   /\ ~AnswerableNow(calls[c].message)

\* C8 witness: a call that was suspended once has returned its generated response
\* while another call is suspended at the generation step
C8_Witness ==
    /\ returned.branch = "generated"
    /\ returned.suspensions = 1
    /\ \E c \in Calls : calls[c].pc = "generating"

\* C9: a conversation for which no chat() call has completed since it was last
\* cleared, or ever, reads as the empty sequence; clearing any id yields a store
\* in which that id reads as empty and every other id reads as before; clearing
\* or reading an unknown id leaves the store as it is.
C9_ClearThenGetIsEmpty ==
    /\ DOMAIN conversation_memory = DOMAIN log
    /\ \A id \in IdsInUse \cup {NoneId, ""} :
          /\ id \notin DOMAIN log
                => /\ GetConversationResponse(id).messages = << >>
                   /\ GetConversationResponse(id).message_count = 0
          /\ GetHistory(ClearHistory(conversation_memory, id), id) = << >>
          /\ \A k \in DOMAIN conversation_memory \ {id} :
                GetHistory(ClearHistory(conversation_memory, id), k) = conversation_memory[k]
          /\ id \notin DOMAIN conversation_memory
                => /\ ClearHistory(conversation_memory, id) = conversation_memory
                   /\ GetHistory(conversation_memory, id) = << >>

\* C9 witness: the conversation of the last generation-path call has been cleared
\* since the call returned, and another conversation still holds its turns
C9_Witness ==
    /\ returned.branch = "generated"
    /\ \A c \in Calls : calls[c].pc = "idle"
    /\ returned.result.conversation_id \notin DOMAIN conversation_memory
    /\ GetConversationResponse(returned.result.conversation_id).message_count = 0
    /\ DOMAIN conversation_memory # {}

\* C10 (as stated): whenever the caller supplied a conversation id, the returned
\* conversation_id is that id.
C10_Original ==
    returned.branch # "none" /\ returned.supplied # NoneId
        => returned.result.conversation_id = returned.supplied

\* C10 (amended): on every branch of chat(), the returned conversation_id is the
\* id the caller supplied when that id is a non-empty string; when the caller
\* supplied none or the empty string it is a generated id, which at the step that
\* generates it differs from every id in use; a generation-path call stores its
\* turns under exactly the returned id.
C10_ReturnedId ==
    /\ [](returned.branch # "none"
            => IF TruthyId(returned.supplied)
               THEN returned.result.conversation_id = returned.supplied
               ELSE \E i \in 1..issued : returned.result.conversation_id = UUIDs[i])
    /\ [](\A c \in Calls : calls[c].pc = "generating"
            => IF TruthyId(calls[c].supplied)
               THEN calls[c].conversation_id = calls[c].supplied
               ELSE \E i \in 1..issued : calls[c].conversation_id = UUIDs[i])
    /\ [][issued' # issued
            => LET id == IF calls' = calls THEN returned'.result.conversation_id
                         ELSE calls'[CHOOSE c \in Calls : calls'[c] # calls[c]].conversation_id
               IN  /\ TruthyId(id)
                   /\ id \notin IdsInUse
                   /\ id \notin DOMAIN conversation_memory
                   /\ \A c \in Calls : calls[c].conversation_id # id
                   /\ returned.result.conversation_id # id
                   /\ id \in IdsInUse']_vars
    /\ [][\A c \in Calls : Resumes(c)
            => /\ returned'.supplied = calls[c].supplied
               /\ returned'.result.conversation_id = calls[c].conversation_id
               /\ returned'.branch = "generated"
                    => LET id == returned'.result.conversation_id
                           new == GetHistory(conversation_memory', id)
                       IN  /\ Len(new) >= 2
                           /\ new[Len(new) - 1].content = calls[c].message
                           /\ new[Len(new)].content = returned'.result.response
                           /\ \A k \in DOMAIN conversation_memory' \ {id} :
                                 /\ k \in DOMAIN conversation_memory
                                 /\ conversation_memory'[k] = conversation_memory[k]]_vars

\* C10 witness: a caller sent the empty string as its id, a second id was
\* generated for the call, and its turns are stored under that id
C10_Witness ==
    /\ returned.branch = "generated"
    /\ returned.supplied = ""
    /\ issued = 2
    /\ returned.result.conversation_id = UUIDs[2]
    /\ UUIDs[2] \in DOMAIN conversation_memory

\* C11: a chat() call invokes the generative model at most once: exactly once when
\* it reaches the generation step, whether the invocation answers or raises, and
\* not at all when it ends in the rejected-topic or the direct-answer branch; a
\* call has not invoked it before it is suspended.
C11_InvokesModelAtMostOnce ==
    /\ returned.invocations <= 1
    /\ returned.branch \in { "rejected", "direct" }
          => returned.invocations = 0 /\ returned.pipeline = "none"
    /\ returned.branch \in { "generated", "error" }
          => returned.invocations = 1 /\ returned.pipeline \in { "returned", "raised" }
    /\ \A c \in Calls : calls[c].invocations = 0

\* C11 witness: a call whose model invocation raised has returned the apology of
\* _generate_response after that one invocation
C11_Witness ==
    /\ returned.pipeline = "raised"
    /\ returned.invocations = 1
    /\ returned.result.response = GEN_APOLOGY

\* the two characters are the same letter, letter case aside, or the same character
SameLetter(x, y) ==
    \/ x = y
    \/ \E n \in 1..Len(UpperLetters) : {x, y} = { UpperLetters[n], LowerLetters[n] }

\* the phrase occurs in the message as a substring, letter case aside
OccursIgnoringCase(phrase, message) ==
    \E i \in 0..(Len(message) - Len(phrase)) :
        \A k \in 1..Len(phrase) : SameLetter(message[i + k], phrase[k])

\* C12: _is_on_topic(message) returns allowed = false exactly when some configured
\* restricted phrase occurs in the message as a substring, letter case aside; the
\* redirect then is the template filled with the first such phrase in configured
\* order; when no phrase occurs it returns allowed = true and no redirect.
C12_GateNamesFirstPhrase ==
    probe.fn = "is_on_topic"
        => LET topics == business_config.restricted_topics
               occurs(i) == OccursIgnoringCase(topics[i], probe.message)
           IN  /\ probe.result.allowed = ~(\E i \in 1..Len(topics) : occurs(i))
               /\ ~probe.result.allowed
                    => \E i \in 1..Len(topics) :
                          /\ occurs(i)
                          /\ \A j \in 1..(i - 1) : ~occurs(j)
                          /\ probe.result.redirect =
                                RedirectHead \o topics[i] \o RedirectMid
                                    \o business_config.type \o RedirectTail
               /\ probe.result.allowed => probe.result.redirect = NoneStr

\* C12 witness: two configured phrases occur in a message, neither in the letter
\* case it was configured in, and the redirect names the one configured first
C12_Witness ==
    /\ probe.fn = "is_on_topic"
    /\ ~probe.result.allowed
    /\ LET topics == business_config.restricted_topics
       IN  \E i, j \in 1..Len(topics) :
              /\ i < j
              /\ topics[i] # topics[j]
              /\ OccursIgnoringCase(topics[i], probe.message)
              /\ OccursIgnoringCase(topics[j], probe.message)
              /\ ~Contains(topics[i], probe.message)
              /\ ~Contains(topics[j], probe.message)
              /\ probe.result.redirect = RedirectMessage(topics[i], business_config)

\* the anchors of a topic: the topic answers when one of them is in the blob
AnchorsOf(topic) ==
    CASE topic = "hours" -> { A_hours }
      [] topic = "location" -> { A_location }
      [] topic = "contact" -> { A_phone, A_email }
      [] topic = "pricing" -> { A_pricing }
      [] topic = "shipping" -> { A_shipping }
      [] topic = "returns" -> { A_return }
      [] topic = "services" -> { A_services }

\* the fixed text a topic's answer begins and ends with
TemplateOf(topic) ==
    CASE topic = "hours" -> [ head |-> HoursHead, tail |-> HoursTail ]
      [] topic = "location" -> [ head |-> LocationHead, tail |-> LocationTail ]
      [] topic = "contact" -> [ head |-> ContactHead, tail |-> ContactTail ]
      [] topic = "pricing" -> [ head |-> PricingHead, tail |-> PricingTail ]
      [] topic = "shipping" -> [ head |-> ShippingHead, tail |-> ShippingTail ]
      [] topic = "returns" -> [ head |-> ReturnsHead, tail |-> ReturnsTail ]
      [] topic = "services" -> [ head |-> ServicesHead, tail |-> ServicesTail ]

\* the declared order of the topics
DeclaredTopics ==
    << "hours", "location", "contact", "pricing", "shipping", "returns", "services" >>

\* a trigger keyword of the k-th topic occurs in the message, letter case aside
KeywordOccurs(k, message) ==
    \E i \in 1..Len(patterns[k].keywords) :
        OccursIgnoringCase(patterns[k].keywords[i], message)

\* an anchor of the k-th topic occurs in the blob, letter case aside
AnchorOccurs(k, details) ==
    \E a \in AnchorsOf(DeclaredTopics[k]) : OccursIgnoringCase(a, details)

\* C13: _get_direct_answer(message) answers with the template of the first topic,
\* in the order hours, location, contact, pricing, shipping, returns, services,
\* that has both a trigger keyword in the lower-cased message and its anchor in
\* the details blob; a topic with a keyword match and no anchor is passed over;
\* the result is None exactly when no topic has both.
C13_FirstAnswerableTopic ==
    probe.fn = "get_direct_answer"
        => LET details == settings.BUSINESS_DETAILS
               both(k) == KeywordOccurs(k, probe.message) /\ AnchorOccurs(k, details)
           IN  /\ Len(patterns) = Len(DeclaredTopics)
               /\ \A k \in 1..Len(patterns) : patterns[k].topic = DeclaredTopics[k]
               /\ probe.result = NoneStr <=> ~(\E k \in 1..Len(patterns) : both(k))
               /\ \A k \in 1..Len(patterns) :
                     both(k) /\ (\A j \in 1..(k - 1) : ~both(j))
                        => LET t == TemplateOf(DeclaredTopics[k])
                               n == Len(probe.result)
                           IN  /\ probe.result # NoneStr
                               /\ n >= Len(t.head) + Len(t.tail)
                               /\ SubSeq(probe.result, 1, Len(t.head)) = t.head
                               /\ SubSeq(probe.result, n - Len(t.tail) + 1, n) = t.tail

\* C13 witness: the message holds a keyword of a topic whose anchor is not in the
\* blob and a keyword of a later topic whose anchor is, and the later topic answers
C13_Witness ==
    /\ probe.fn = "get_direct_answer"
    /\ probe.result # NoneStr
    /\ \E j, k \in 1..Len(patterns) :
          /\ j < k
          /\ KeywordOccurs(j, probe.message)
          /\ ~AnchorOccurs(j, settings.BUSINESS_DETAILS)
          /\ KeywordOccurs(k, probe.message)
          /\ AnchorOccurs(k, settings.BUSINESS_DETAILS)
          /\ \A i \in 1..(k - 1) :
                ~(KeywordOccurs(i, probe.message) /\ AnchorOccurs(i, settings.BUSINESS_DETAILS))
          /\ SubSeq(probe.result, 1, Len(TemplateOf(DeclaredTopics[k]).head))
                = TemplateOf(DeclaredTopics[k]).head

\* C14: _clean_response(raw, original_message) returns a non-empty string for
\* every non-empty raw, also when raw holds nothing but the echoed message, role
\* labels and blanks, and never a string longer than 500 characters plus the
\* three characters of the ellipsis.
C14_CleanedIsNonEmptyAndCapped ==
    probe.fn = "clean_response" /\ probe.raw # << >>
        => /\ probe.result # << >>
           /\ probe.result # NoneStr
           /\ Len(probe.result) <= 500 + 3
           /\ Len(probe.result) > 500
                => SubSeq(probe.result, 501, Len(probe.result)) = << ".", ".", "." >>

\* C14 witness: a raw response made of the echoed message and a role label was
\* cleaned to the canned sentence
C14_Witness ==
    /\ probe.fn = "clean_response"
    /\ probe.raw # << >>
    /\ Contains(probe.message, probe.raw)
    /\ \E k \in 1..Len(prefixes_to_remove) : Contains(prefixes_to_remove[k], probe.raw)
    /\ Len(probe.raw) = Len(probe.message) + 3
    /\ probe.result = CLEAN_EMPTY

\* C15: in every reachable state, every conversation present in the store is
\* non-empty, of even length at most 10, and alternates user, assistant, user,
\* assistant, ... from a user turn on, whatever the interleaving of chat() calls
\* and clears.
C15_StoredTurnsAlternate ==
    \A id \in DOMAIN conversation_memory :
        LET turns == conversation_memory[id]
        IN  /\ Len(turns) > 0
            /\ Len(turns) % 2 = 0
            /\ Len(turns) <= 10
            /\ \A i \in 1..Len(turns) :
                  turns[i].role = IF i % 2 = 1 THEN "user" ELSE "assistant"

\* C15 witness: a conversation for which a call is suspended has lost its oldest
\* exchange at the cap and begins with the user turn of its second exchange
C15_Witness ==
    \E id \in DOMAIN conversation_memory :
        /\ \E c \in Calls : calls[c].pc = "generating" /\ calls[c].conversation_id = id
        /\ Len(log[id]) = 12
        /\ Len(conversation_memory[id]) = 10
        /\ conversation_memory[id][1].role = "user"
        /\ conversation_memory[id][1].content = log[id][3].content

\* C16: a clear does not cancel or fence the calls in flight: a suspended call stays
\* suspended, with its message, id and prompt, until it resumes; a step that ends a
\* suspended call returns that call's result; and a generation-path call whose
\* conversation was cleared of its turns while it was suspended still appends its user turn and
\* its assistant turn when it resumes, so that the history of the id is non-empty
\* again, and is exactly those two turns when no other call completed for the id
\* since the clear.
C16_ClearDoesNotFence ==
    /\ [][\A c \in Calls : calls[c].pc = "generating"
            => \/ /\ calls'[c].pc = "generating"
                  /\ calls'[c].message = calls[c].message
                  /\ calls'[c].conversation_id = calls[c].conversation_id
                  /\ calls'[c].prompt = calls[c].prompt
               \/ /\ Resumes(c)
                  /\ returned'.branch \in { "generated", "error" }
                  /\ returned'.message = calls[c].message
                  /\ returned'.cleared = calls[c].cleared]_vars
    /\ [][\A c \in Calls : Resumes(c) /\ calls[c].cleared /\ returned'.branch = "generated"
            => LET id == calls[c].conversation_id
                   new == GetHistory(conversation_memory', id)
                   n == Len(new)
               IN  /\ n >= 2
                   /\ new[n - 1].role = "user"
                   /\ new[n - 1].content = calls[c].message
                   /\ new[n].role = "assistant"
                   /\ new[n].content = returned'.result.response
                   /\ id \notin DOMAIN conversation_memory => n = 2]_vars

\* C16 witness: the stored turns of a conversation were cleared while a call for it
\* was suspended, the call has resumed since, and the conversation holds exactly
\* the two turns of that call
C16_Witness ==
    /\ returned.branch = "generated"
    /\ returned.cleared
    /\ \A c \in Calls : calls[c].pc = "idle"
    /\ LET id == returned.result.conversation_id
       IN  /\ GetConversationResponse(id).message_count = 2
           /\ conversation_memory[id][1].content = returned.message
           /\ conversation_memory[id][2].content = returned.result.response

\* the last three turns of a caller-supplied history
LastThree(conversation_history) ==
    [ i \in 1..(IF Len(conversation_history) < 3 THEN Len(conversation_history) ELSE 3) |->
        conversation_history[Len(conversation_history)
            - (IF Len(conversation_history) < 3 THEN Len(conversation_history) ELSE 3) + i] ]

\* C17: chat() never reads the store.  A call that returns after a result was noted,
\* with the message, the id and the model output of the noted call, returns on the
\* same branch the same response, model_used and tokens_used, whatever the store
\* was then and is now; and a suspended call with the message, the last three
\* history turns and the context string of a noted prompt has handed the same
\* prompt to the model, whatever the two stores.
C17_StoreIsNeverRead ==
    /\ probe.fn = "chat" /\ returned.branch # "none"
            /\ returned.message = probe.result.returned.message
            /\ returned.supplied = probe.result.returned.supplied
            /\ returned.pipeline = probe.result.returned.pipeline
          => /\ returned.branch = probe.result.returned.branch
             /\ returned.result.response = probe.result.returned.result.response
             /\ returned.result.model_used = probe.result.returned.result.model_used
             /\ returned.result.tokens_used = probe.result.returned.result.tokens_used
    /\ probe.fn = "prompt"
          => \A c \in Calls :
                calls[c].pc = "generating"
                    /\ calls[c].message = probe.message
                    /\ LastThree(calls[c].conversation_history)
                          = LastThree(probe.result.conversation_history)
                    /\ calls[c].context = probe.result.context
                  => calls[c].prompt = probe.raw

\* C17 witness: a prompt was noted while the conversation held no turn; a call with
\* the same message, another history with the same last three turns and the same
\* context is suspended with the same prompt while the conversation holds turns
C17_Witness ==
    /\ probe.fn = "prompt"
    /\ \E c \in Calls :
          /\ calls[c].pc = "generating"
          /\ calls[c].message = probe.message
          /\ calls[c].conversation_history # probe.result.conversation_history
          /\ LastThree(calls[c].conversation_history)
                = LastThree(probe.result.conversation_history)
          /\ calls[c].prompt = probe.raw
          /\ calls[c].conversation_id \notin DOMAIN probe.result.store
          /\ calls[c].conversation_id \in DOMAIN conversation_memory

====
